---- MODULE Spec2Model ----
(***************************************************************************)
(* Model of main.py: the JSON-backed SubscriptionStore (load, flush,       *)
(* add_chat, remove_chat, list_chats, get_chat, count) and the handlers    *)
(* that call it (subscribe, unsubscribe, list, broadcast), run by          *)
(* concurrent callers that interleave at every lock acquisition and at     *)
(* every awaited network call.                                             *)
(*                                                                         *)
(* Strings the code compares or converts (titles, keys) are sequences of   *)
(* character codes, so that str(), int() and str.lower() are computed.     *)
(***************************************************************************)
EXTENDS Integers, Sequences, FiniteSets, TLC

(* ---------------------------------------------------------------- bounds *)

\* number of handler invocations and crashes in one behaviour
MaxOps == 2

\* the concurrent callers of the handlers
Threads == {1, 2}

(* ------------------------------------------------------- program values *)

\* RLock with no owner
Unlocked == 0

\* outcomes of context.bot.copy_message
Outcomes == {"Delivered", "Forbidden", "TelegramError"}

(* ----------------------------------------------------- string functions *)

\* str.lower() on one character code
LowerChar(c) == IF c >= 65 /\ c <= 90 THEN c + 32 ELSE c

\* str.lower()
Lower(s) == [i \in 1..Len(s) |-> LowerChar(s[i])]

RECURSIVE StrLess(_, _)
\* a < b on strings (lexicographic on code points)
StrLess(a, b) ==
    IF b = <<>> THEN FALSE
    ELSE IF a = <<>> THEN TRUE
    ELSE IF a[1] # b[1] THEN a[1] < b[1]
    ELSE StrLess(Tail(a), Tail(b))

RECURSIVE Digits(_)
\* decimal digits of a natural number, as character codes
Digits(n) == IF n < 10 THEN <<48 + n>> ELSE Digits(n \div 10) \o <<48 + (n % 10)>>

\* str(chat.id)
IntToStr(n) == IF n < 0 THEN <<45>> \o Digits(0 - n) ELSE Digits(n)

RECURSIVE DigitsValue(_)
DigitsValue(s) ==
    IF s = <<>> THEN 0 ELSE 10 * DigitsValue(SubSeq(s, 1, Len(s) - 1)) + (s[Len(s)] - 48)

\* int(chat_id) on a key written by str()
StrToInt(s) == IF s # <<>> /\ s[1] = 45 THEN 0 - DigitsValue(Tail(s)) ELSE DigitsValue(s)

(* ------------------------------------------------------------ the inputs *)

\* effective_chat of an update; an empty string stands for None (both falsy)
MkChat(id, title, full_name, username, type) ==
    [id |-> id, title |-> title, full_name |-> full_name,
     username |-> username, type |-> type]

ChatB == MkChat(1, <<66>>, <<>>, <<>>, "group")
ChatPlain == MkChat(1, <<>>, <<>>, <<>>, "supergroup")
ChatA == MkChat(2, <<97>>, <<>>, <<>>, "channel")
ChatZ == MkChat(0 - 3, <<>>, <<>>, <<122>>, "group")
ChatPrivate == MkChat(4, <<>>, <<99>>, <<>>, "private")

ChatInputs == {ChatB, ChatPlain, ChatA, ChatZ, ChatPrivate}

ChatIds == {c.id : c \in ChatInputs}

(* -------------------------------------------------- SubscriptionStore *)

\* the title add_chat stores: title, full_name, @username or the id
ResolveTitle(chat) ==
    IF chat.title # <<>> THEN chat.title
    ELSE IF chat.full_name # <<>> THEN chat.full_name
    ELSE IF chat.username # <<>> THEN <<64>> \o chat.username
    ELSE IntToStr(chat.id)

\* one item of self._data["chats"]: key -> {"title", "type"}
Entry(chat) == [key |-> IntToStr(chat.id), title |-> ResolveTitle(chat), type |-> chat.type]

\* self._data["chats"] is a dict: a sequence of items in insertion order
Keys(d) == {d[i].key : i \in 1..Len(d)}

IndexOf(d, key) == CHOOSE i \in 1..Len(d) : d[i].key = key

\* self._data["chats"].get(key): the items with that key (none or one)
DictGet(d, key) == {d[i] : i \in {j \in 1..Len(d) : d[j].key = key}}

\* faulty variant of DictSet: the item is appended even when the key exists
DictSetAppend(d, e) == Append(d, e)

\* self._data["chats"][key] = payload: overwrite in place, or append
DictSet(d, e) ==
    IF e.key \in Keys(d)
    THEN [d EXCEPT ![IndexOf(d, e.key)] = e]
    ELSE Append(d, e)

\* faulty variant of DictDel: the oldest item is deleted, whatever the key
DictDelFirst(d, key) == Tail(d)

\* faulty variant of DictDel: the whole mapping is cleared
DictDelAll(d, key) == <<>>

\* del self._data["chats"][key]
DictDel(d, key) ==
    LET k == IndexOf(d, key)
    IN  SubSeq(d, 1, k - 1) \o SubSeq(d, k + 1, Len(d))

\* the contents of a file
MkFile(kind, chats) == [kind |-> kind, chats |-> chats]

\* no file at that path
Absent == MkFile("absent", <<>>)
\* bytes that are not UTF-8 text
Undecodable == MkFile("undecodable", <<>>)
\* text that is not JSON, such as an empty file
BadJson == MkFile("badjson", <<>>)
\* a prefix of a document: opened for writing, not written to the end
Torn == MkFile("torn", <<>>)
\* JSON whose top level is not an object
NonDict == MkFile("nondict", <<>>)
\* a JSON object whose "chats" is missing or is not an object
NoChats == MkFile("nochats", <<>>)

\* json.dump(self._data, dst): the document {"chats": {key: {title, type}}}
Dump(d) == MkFile("doc", d)

\* _load raises: the file is read as UTF-8 and only JSONDecodeError is caught
LoadRaises(f) == f.kind = "undecodable"

\* faulty variant of Load: the parsed "chats" object is never installed
LoadNoDoc(f) == <<>>

\* the mapping _load leaves in self._data["chats"]
Load(f) ==
    IF f.kind = "absent" THEN <<>>
    ELSE LET raw == IF f.kind \in {"badjson", "torn"} THEN NoChats ELSE f
         IN  IF raw.kind = "doc" THEN raw.chats ELSE <<>>

RECURSIVE InsertSortedByRawTitle(_, _)
\* faulty variant of InsertSorted: the titles are compared as they are
InsertSortedByRawTitle(s, item) ==
    IF s = <<>> THEN <<item>>
    ELSE IF StrLess(item.title, s[1].title)
         THEN <<item>> \o s
         ELSE <<s[1]>> \o InsertSortedByRawTitle(Tail(s), item)

RECURSIVE InsertSorted(_, _)
\* place item after every item whose lowered title is not greater (stable)
InsertSorted(s, item) ==
    IF s = <<>> THEN <<item>>
    ELSE IF StrLess(Lower(item.title), Lower(s[1].title))
         THEN <<item>> \o s
         ELSE <<s[1]>> \o InsertSorted(Tail(s), item)

RECURSIVE SortByTitle(_)
\* sorted(items, key=lambda item: item["title"].lower())
SortByTitle(items) ==
    IF items = <<>> THEN <<>>
    ELSE InsertSorted(SortByTitle(SubSeq(items, 1, Len(items) - 1)), items[Len(items)])

\* list_chats: the items {"id": int(key), title, type}, sorted by title
list_chats(d) ==
    SortByTitle([i \in 1..Len(d) |->
        [id |-> StrToInt(d[i].key), title |-> d[i].title, type |-> d[i].type]])

\* get_chat: the set holding the member with that id, empty when unknown
get_chat(d, chat_id) ==
    {[id |-> chat_id, title |-> e.title, type |-> e.type] : e \in DictGet(d, IntToStr(chat_id))}

\* count
count(d) == Len(d)

(* ------------------------------------------------------------- the state *)

VARIABLES
    proc,       \* "boot" before SubscriptionStore(...) returns, then "running"; "failed" when it raised
    file,       \* contents of self.path
    tmp,        \* contents of self.path.with_suffix(".tmp")
    data,       \* self._data["chats"]
    lock,       \* owner of self._lock, or Unlocked
    dirty,      \* a flush has raised and no flush has completed since
    ops,        \* handler invocations and crashes so far
    pc,         \* where each caller is
    op,         \* the handler each caller runs
    arg,        \* the item add_chat stores, or the key remove_chat deletes
    existing,   \* add_chat's local "existing" (empty set for None)
    targets,    \* broadcast_handler's targets
    idx,        \* position of the broadcast loop in targets
    sent,       \* broadcast_handler's counter
    failures,   \* broadcast_handler's list of notes
    outcome,    \* how the last copy_message of the broadcast ended
    reply,      \* the last reply_text sent, "raised" when the handler raised instead
    hist        \* history, kept when hist.on: the mapping loaded at start-up and
                \* the add_chat and remove_chat calls in the order they ended

vars == <<proc, file, tmp, data, lock, dirty, ops, pc, op, arg, existing,
          targets, idx, sent, failures, outcome, reply, hist>>

locals == <<pc, op, arg, existing, targets, idx, sent, failures, outcome>>

NoArg == [key |-> <<>>, title |-> <<>>, type |-> ""]

\* the items the file of an earlier run holds
EntryB == Entry(ChatB)
EntryA == Entry(ChatA)
EntryZ == Entry(ChatZ)

\* no history is kept
HistOff == [on |-> FALSE, base |-> <<>>, log |-> <<>>]

\* the history after one more call has ended
Logged(e) == hist' = IF hist.on THEN [hist EXCEPT !.log = Append(@, e)] ELSE hist

\* what self.path may hold when the program starts
InitFiles ==
    {Absent, Undecodable, BadJson, NonDict, NoChats, Dump(<<EntryB, EntryA, EntryZ>>)}

Init ==
    /\ proc = "boot"
    /\ file \in InitFiles
    /\ tmp = Absent
    /\ data = <<>>
    /\ lock = Unlocked
    /\ dirty = FALSE
    /\ ops = 0
    /\ pc = [t \in Threads |-> "idle"]
    /\ op = [t \in Threads |-> "none"]
    /\ arg = [t \in Threads |-> NoArg]
    /\ existing = [t \in Threads |-> {}]
    /\ targets = [t \in Threads |-> <<>>]
    /\ idx = [t \in Threads |-> 0]
    /\ sent = [t \in Threads |-> 0]
    /\ failures = [t \in Threads |-> <<>>]
    /\ outcome = [t \in Threads |-> "none"]
    /\ reply = "none"
    /\ hist = HistOff

(* ------------------------------------------------- start-up and crashes *)

\* SubscriptionStore.__init__: empty mapping, then _load
Startup ==
    /\ proc = "boot"
    /\ IF LoadRaises(file)
       THEN proc' = "failed" /\ data' = data
       ELSE proc' = "running" /\ data' = Load(file)
    /\ hist' = IF hist.on THEN [hist EXCEPT !.base = Load(file), !.log = <<>>] ELSE hist
    /\ UNCHANGED <<file, tmp, lock, dirty, ops, locals, reply>>

\* the process dies at any point; the files stay as they are
Crash ==
    /\ proc = "running"
    /\ ops < MaxOps
    /\ ops' = ops + 1
    /\ proc' = "boot"
    /\ data' = <<>>
    /\ lock' = Unlocked
    /\ dirty' = FALSE
    /\ pc' = [t \in Threads |-> "idle"]
    /\ op' = [t \in Threads |-> "none"]
    /\ arg' = [t \in Threads |-> NoArg]
    /\ existing' = [t \in Threads |-> {}]
    /\ targets' = [t \in Threads |-> <<>>]
    /\ idx' = [t \in Threads |-> 0]
    /\ sent' = [t \in Threads |-> 0]
    /\ failures' = [t \in Threads |-> <<>>]
    /\ outcome' = [t \in Threads |-> "none"]
    /\ reply' = "none"
    /\ UNCHANGED <<hist, file, tmp>>

\* a handler may be invoked for caller t
CanStart(t) ==
    /\ proc = "running"
    /\ pc[t] = "idle"
    /\ ops < MaxOps

\* the handler of caller t ends after replying r (or raising): its locals go
Replied(t, r) ==
    /\ reply' = r
    /\ pc' = [pc EXCEPT ![t] = "idle"]
    /\ op' = [op EXCEPT ![t] = "none"]
    /\ arg' = [arg EXCEPT ![t] = NoArg]
    /\ existing' = [existing EXCEPT ![t] = {}]
    /\ targets' = [targets EXCEPT ![t] = <<>>]
    /\ idx' = [idx EXCEPT ![t] = 0]
    /\ sent' = [sent EXCEPT ![t] = 0]
    /\ failures' = [failures EXCEPT ![t] = <<>>]
    /\ outcome' = [outcome EXCEPT ![t] = "none"]

(* ----------------------------------------------------------- _flush *)

\* faulty variant of FlushOpen: the backing file itself is opened for writing
FlushOpenInPlace(t) ==
    /\ pc[t] = "flush_open"
    /\ file' = Torn
    /\ pc' = [pc EXCEPT ![t] = "flush_dump"]
    /\ UNCHANGED <<hist, proc, tmp, data, lock, dirty, ops, op, arg, existing,
                   targets, idx, sent, failures, outcome, reply>>

\* tmp_path.open("w"): the temporary file is truncated
FlushOpen(t) ==
    /\ pc[t] = "flush_open"
    /\ tmp' = Torn
    /\ pc' = [pc EXCEPT ![t] = "flush_dump"]
    /\ UNCHANGED <<hist, proc, file, data, lock, dirty, ops, op, arg, existing,
                   targets, idx, sent, failures, outcome, reply>>

\* json.dump(self._data, dst) and the close of the with block
FlushDump(t) ==
    /\ pc[t] = "flush_dump"
    /\ tmp' = Dump(data)
    /\ pc' = [pc EXCEPT ![t] = "flush_replace"]
    /\ UNCHANGED <<hist, proc, file, data, lock, dirty, ops, op, arg, existing,
                   targets, idx, sent, failures, outcome, reply>>

\* faulty variant of FlushReplace: the temporary file is never renamed
FlushReplaceSkip(t) ==
    /\ pc[t] = "flush_replace"
    /\ dirty' = FALSE
    /\ pc' = [pc EXCEPT ![t] = IF op[t] = "subscribe" THEN "add_exit" ELSE "rm_exit"]
    /\ UNCHANGED <<hist, proc, file, tmp, data, lock, ops, op, arg, existing,
                   targets, idx, sent, failures, outcome, reply>>

\* tmp_path.replace(self.path), after which _flush returns into the with block
FlushReplace(t) ==
    /\ pc[t] = "flush_replace"
    /\ file' = tmp
    /\ tmp' = Absent
    /\ dirty' = FALSE
    /\ pc' = [pc EXCEPT ![t] = IF op[t] = "subscribe" THEN "add_exit" ELSE "rm_exit"]
    /\ UNCHANGED <<hist, proc, data, lock, ops, op, arg, existing,
                   targets, idx, sent, failures, outcome, reply>>

\* faulty variant of FlushRaise: the error is swallowed inside _flush, and
\* add_chat or remove_chat goes on to its return statement
FlushRaiseSwallowed(t) ==
    /\ pc[t] \in {"flush_open", "flush_dump", "flush_replace"}
    /\ dirty' = TRUE
    /\ pc' = [pc EXCEPT ![t] = IF op[t] = "subscribe" THEN "add_exit" ELSE "rm_exit"]
    /\ UNCHANGED <<hist, proc, file, tmp, data, lock, ops, op, arg, existing,
                   targets, idx, sent, failures, outcome, reply>>

\* open, write or replace raises: the with block releases the lock and the
\* error leaves add_chat or remove_chat and then the handler, which has no
\* except clause for it
FlushRaise(t) ==
    /\ pc[t] \in {"flush_open", "flush_dump", "flush_replace"}
    /\ lock' = Unlocked
    /\ dirty' = TRUE
    /\ Replied(t, "raised")
    /\ Logged([op |-> IF op[t] = "subscribe" THEN "add" ELSE "remove",
               item |-> arg[t], result |-> "raised"])
    /\ UNCHANGED <<proc, file, tmp, data, ops>>

(* ------------------------------------------- subscribe_handler, add_chat *)

\* subscribe_handler up to the call of store.add_chat(chat); admin is the
\* answer of get_chat_member for the user who sent the command
SubscribeStart(t, chat, admin) ==
    /\ CanStart(t)
    /\ ops' = ops + 1
    /\ IF chat.type = "private"
       THEN Replied(t, "use_in_group")
       ELSE IF chat.type # "channel" /\ ~admin
            THEN Replied(t, "admins_only")
            ELSE /\ op' = [op EXCEPT ![t] = "subscribe"]
                 /\ arg' = [arg EXCEPT ![t] = Entry(chat)]
                 /\ pc' = [pc EXCEPT ![t] = "add_enter"]
                 /\ UNCHANGED <<existing, targets, idx, sent, failures, outcome, reply>>
    /\ UNCHANGED <<hist, proc, file, tmp, data, lock, dirty>>

\* faulty variant of AddAcquire: the lock is taken without waiting for it
AddAcquireNoWait(t) ==
    /\ pc[t] = "add_enter"
    /\ lock' = t
    /\ pc' = [pc EXCEPT ![t] = "add_update"]
    /\ UNCHANGED <<hist, proc, file, tmp, data, dirty, ops, op, arg, existing,
                   targets, idx, sent, failures, outcome, reply>>

\* add_chat: with self._lock
AddAcquire(t) ==
    /\ pc[t] = "add_enter"
    /\ lock = Unlocked
    /\ lock' = t
    /\ pc' = [pc EXCEPT ![t] = "add_update"]
    /\ UNCHANGED <<hist, proc, file, tmp, data, dirty, ops, op, arg, existing,
                   targets, idx, sent, failures, outcome, reply>>

\* add_chat: existing = chats.get(key); chats[key] = payload
AddUpdate(t) ==
    /\ pc[t] = "add_update"
    /\ existing' = [existing EXCEPT ![t] = DictGet(data, arg[t].key)]
    /\ data' = DictSet(data, arg[t])
    /\ pc' = [pc EXCEPT ![t] = "flush_open"]
    /\ UNCHANGED <<hist, proc, file, tmp, lock, dirty, ops, op, arg,
                   targets, idx, sent, failures, outcome, reply>>

\* faulty variant of AddReturn: the lock is still held after the return
AddReturnKeepLock(t) ==
    /\ pc[t] = "add_exit"
    /\ lock' = lock
    /\ Replied(t, IF existing[t] = {} THEN "subscribed" ELSE "already_subscribed")
    /\ Logged([op |-> "add", item |-> arg[t],
               result |-> IF existing[t] = {} THEN "true" ELSE "false"])
    /\ UNCHANGED <<proc, file, tmp, data, dirty, ops>>

\* add_chat leaves the with block and returns existing is None;
\* subscribe_handler replies
AddReturn(t) ==
    /\ pc[t] = "add_exit"
    /\ lock' = Unlocked
    /\ Replied(t, IF existing[t] = {} THEN "subscribed" ELSE "already_subscribed")
    /\ Logged([op |-> "add", item |-> arg[t],
               result |-> IF existing[t] = {} THEN "true" ELSE "false"])
    /\ UNCHANGED <<proc, file, tmp, data, dirty, ops>>

(* -------------------------------------- unsubscribe_handler, remove_chat *)

\* unsubscribe_handler up to the call of store.remove_chat(chat.id)
UnsubscribeStart(t, chat, admin) ==
    /\ CanStart(t)
    /\ ops' = ops + 1
    /\ IF chat.type = "private"
       THEN Replied(t, "use_in_group")
       ELSE IF chat.type # "channel" /\ ~admin
            THEN Replied(t, "admins_only")
            ELSE /\ op' = [op EXCEPT ![t] = "unsubscribe"]
                 /\ arg' = [arg EXCEPT ![t] = [NoArg EXCEPT !.key = IntToStr(chat.id)]]
                 /\ pc' = [pc EXCEPT ![t] = "rm_enter"]
                 /\ UNCHANGED <<existing, targets, idx, sent, failures, outcome, reply>>
    /\ UNCHANGED <<hist, proc, file, tmp, data, lock, dirty>>

\* remove_chat: with self._lock
RemoveAcquire(t) ==
    /\ pc[t] = "rm_enter"
    /\ lock = Unlocked
    /\ lock' = t
    /\ pc' = [pc EXCEPT ![t] = "rm_check"]
    /\ UNCHANGED <<hist, proc, file, tmp, data, dirty, ops, op, arg, existing,
                   targets, idx, sent, failures, outcome, reply>>

\* faulty variant of RemoveReturned: broadcast_handler also counts the evicted
\* target as delivered
RemoveReturnedCounted(t, removed) ==
    IF op[t] = "unsubscribe"
    THEN Replied(t, IF removed THEN "removed" ELSE "not_subscribed")
    ELSE /\ failures' = [failures EXCEPT ![t] =
                Append(@, [kind |-> "removed", id |-> targets[t][idx[t]].id,
                           title |-> targets[t][idx[t]].title])]
         /\ sent' = [sent EXCEPT ![t] = @ + 1]
         /\ idx' = [idx EXCEPT ![t] = @ + 1]
         /\ pc' = [pc EXCEPT ![t] = "send"]
         /\ arg' = [arg EXCEPT ![t] = NoArg]
         /\ UNCHANGED <<op, existing, reply, targets, outcome>>

\* remove_chat has returned to its caller: unsubscribe_handler replies,
\* broadcast_handler appends its note and goes on with the next target
RemoveReturned(t, removed) ==
    IF op[t] = "unsubscribe"
    THEN Replied(t, IF removed THEN "removed" ELSE "not_subscribed")
    ELSE /\ failures' = [failures EXCEPT ![t] =
                Append(@, [kind |-> "removed", id |-> targets[t][idx[t]].id,
                           title |-> targets[t][idx[t]].title])]
         /\ idx' = [idx EXCEPT ![t] = @ + 1]
         /\ pc' = [pc EXCEPT ![t] = "send"]
         /\ arg' = [arg EXCEPT ![t] = NoArg]
         /\ UNCHANGED <<op, existing, reply, targets, sent, outcome>>

\* faulty variant of RemoveAbsent: the absent key is not noticed and the
\* mapping is flushed as if a deletion had been made
RemoveAbsentFlush(t) ==
    /\ pc[t] = "rm_check"
    /\ arg[t].key \notin Keys(data)
    /\ pc' = [pc EXCEPT ![t] = "flush_open"]
    /\ UNCHANGED <<hist, proc, file, tmp, data, lock, dirty, ops, op, arg, existing,
                   targets, idx, sent, failures, outcome, reply>>

\* remove_chat: the key is absent: return False
RemoveAbsent(t) ==
    /\ pc[t] = "rm_check"
    /\ arg[t].key \notin Keys(data)
    /\ lock' = Unlocked
    /\ RemoveReturned(t, FALSE)
    /\ Logged([op |-> "remove", item |-> arg[t], result |-> "false"])
    /\ UNCHANGED <<proc, file, tmp, data, dirty, ops>>

\* faulty variant of RemoveDelete: the lists handed out by list_chats share
\* their items with the mapping, so the deletion shows in them
RemoveDeleteAliased(t) ==
    /\ pc[t] = "rm_check"
    /\ arg[t].key \in Keys(data)
    /\ data' = DictDel(data, arg[t].key)
    /\ targets' = [u \in Threads |->
          IF u = t THEN targets[u]
          ELSE SelectSeq(targets[u], LAMBDA m : IntToStr(m.id) # arg[t].key)]
    /\ pc' = [pc EXCEPT ![t] = "flush_open"]
    /\ UNCHANGED <<hist, proc, file, tmp, lock, dirty, ops, op, arg, existing,
                   idx, sent, failures, outcome, reply>>

\* remove_chat: del chats[key]
RemoveDelete(t) ==
    /\ pc[t] = "rm_check"
    /\ arg[t].key \in Keys(data)
    /\ data' = DictDel(data, arg[t].key)
    /\ pc' = [pc EXCEPT ![t] = "flush_open"]
    /\ UNCHANGED <<hist, proc, file, tmp, lock, dirty, ops, op, arg, existing,
                   targets, idx, sent, failures, outcome, reply>>

\* faulty variant of RemoveReturn: the lock is still held after the return
RemoveReturnKeepLock(t) ==
    /\ pc[t] = "rm_exit"
    /\ lock' = lock
    /\ RemoveReturned(t, TRUE)
    /\ Logged([op |-> "remove", item |-> arg[t], result |-> "true"])
    /\ UNCHANGED <<proc, file, tmp, data, dirty, ops>>

\* remove_chat: return True after the flush
RemoveReturn(t) ==
    /\ pc[t] = "rm_exit"
    /\ lock' = Unlocked
    /\ RemoveReturned(t, TRUE)
    /\ Logged([op |-> "remove", item |-> arg[t], result |-> "true"])
    /\ UNCHANGED <<proc, file, tmp, data, dirty, ops>>

(* ----------------------------------------------------------- list_handler *)

\* list_handler: store.list_chats() and the reply
ListChats(t) ==
    /\ CanStart(t)
    /\ lock = Unlocked
    /\ ops' = ops + 1
    /\ Replied(t, IF list_chats(data) = <<>> THEN "no_chats" ELSE "targets")
    /\ UNCHANGED <<hist, proc, file, tmp, data, lock, dirty>>

(* ------------------------------------------------------ broadcast_handler *)

\* the sender is not in allowed_user_ids
BroadcastDenied(t) ==
    /\ CanStart(t)
    /\ ops' = ops + 1
    /\ Replied(t, "not_allowed")
    /\ UNCHANGED <<hist, proc, file, tmp, data, lock, dirty>>

\* targets = store.list_chats(); reply at once when there are none
BroadcastStart(t) ==
    /\ CanStart(t)
    /\ lock = Unlocked
    /\ ops' = ops + 1
    /\ IF list_chats(data) = <<>>
       THEN Replied(t, "no_subscribers")
       ELSE /\ op' = [op EXCEPT ![t] = "broadcast"]
            /\ pc' = [pc EXCEPT ![t] = "send"]
            /\ targets' = [targets EXCEPT ![t] = list_chats(data)]
            /\ idx' = [idx EXCEPT ![t] = 1]
            /\ sent' = [sent EXCEPT ![t] = 0]
            /\ failures' = [failures EXCEPT ![t] = <<>>]
            /\ UNCHANGED <<arg, existing, outcome, reply>>
    /\ UNCHANGED <<hist, proc, file, tmp, data, lock, dirty>>

\* faulty variant of Send: every failed copy_message evicts the target
SendEvictOnError(t, o) ==
    /\ pc[t] = "send"
    /\ idx[t] <= Len(targets[t])
    /\ outcome' = [outcome EXCEPT ![t] = o]
    /\ LET target == targets[t][idx[t]]
       IN  CASE o = "Delivered" ->
                  /\ sent' = [sent EXCEPT ![t] = @ + 1]
                  /\ idx' = [idx EXCEPT ![t] = @ + 1]
                  /\ UNCHANGED <<pc, arg, failures>>
             [] OTHER ->
                  /\ arg' = [arg EXCEPT ![t] = [NoArg EXCEPT !.key = IntToStr(target.id)]]
                  /\ pc' = [pc EXCEPT ![t] = "rm_enter"]
                  /\ UNCHANGED <<sent, idx, failures>>
    /\ UNCHANGED <<hist, proc, file, tmp, data, lock, dirty, ops, op, existing,
                   targets, reply>>

\* one turn of the loop: copy_message to targets[idx] ends as o
Send(t, o) ==
    /\ pc[t] = "send"
    /\ idx[t] <= Len(targets[t])
    /\ outcome' = [outcome EXCEPT ![t] = o]
    /\ LET target == targets[t][idx[t]]
       IN  CASE o = "Delivered" ->
                  /\ sent' = [sent EXCEPT ![t] = @ + 1]
                  /\ idx' = [idx EXCEPT ![t] = @ + 1]
                  /\ UNCHANGED <<pc, arg, failures>>
             [] o = "Forbidden" ->
                  /\ arg' = [arg EXCEPT ![t] = [NoArg EXCEPT !.key = IntToStr(target.id)]]
                  /\ pc' = [pc EXCEPT ![t] = "rm_enter"]
                  /\ UNCHANGED <<sent, idx, failures>>
             [] OTHER ->
                  /\ failures' = [failures EXCEPT ![t] =
                         Append(@, [kind |-> "error", id |-> target.id,
                                    title |-> target.title])]
                  /\ idx' = [idx EXCEPT ![t] = @ + 1]
                  /\ UNCHANGED <<pc, arg, sent>>
    /\ UNCHANGED <<hist, proc, file, tmp, data, lock, dirty, ops, op, existing,
                   targets, reply>>

\* after the loop: the summary is sent
Report(t) ==
    /\ pc[t] = "send"
    /\ idx[t] > Len(targets[t])
    /\ Replied(t, "report")
    /\ UNCHANGED <<hist, proc, file, tmp, data, lock, dirty, ops>>

(* ------------------------------------------------------ the specification *)

Next ==
    \/ Startup
    \/ Crash
    \/ \E t \in Threads :
        \/ \E chat \in ChatInputs, admin \in BOOLEAN :
              \/ SubscribeStart(t, chat, admin)
              \/ UnsubscribeStart(t, chat, admin)
        \/ AddAcquire(t)
        \/ AddUpdate(t)
        \/ AddReturn(t)
        \/ RemoveAcquire(t)
        \/ RemoveAbsent(t)
        \/ RemoveDelete(t)
        \/ RemoveReturn(t)
        \/ FlushOpen(t)
        \/ FlushDump(t)
        \/ FlushReplace(t)
        \/ FlushRaise(t)
        \/ ListChats(t)
        \/ BroadcastDenied(t)
        \/ BroadcastStart(t)
        \/ \E o \in Outcomes : Send(t, o)
        \/ Report(t)

Spec == Init /\ [][Next]_vars

\* the same program with the history kept
InitHist ==
    /\ proc = "boot"
    /\ file \in InitFiles
    /\ tmp = Absent
    /\ data = <<>>
    /\ lock = Unlocked
    /\ dirty = FALSE
    /\ ops = 0
    /\ pc = [t \in Threads |-> "idle"]
    /\ op = [t \in Threads |-> "none"]
    /\ arg = [t \in Threads |-> NoArg]
    /\ existing = [t \in Threads |-> {}]
    /\ targets = [t \in Threads |-> <<>>]
    /\ idx = [t \in Threads |-> 0]
    /\ sent = [t \in Threads |-> 0]
    /\ failures = [t \in Threads |-> <<>>]
    /\ outcome = [t \in Threads |-> "none"]
    /\ reply = "none"
    /\ hist = [HistOff EXCEPT !.on = TRUE]

SpecHist == InitHist /\ [][Next]_vars

\* caller t enters the with block of add_chat or remove_chat
Acquire(t) == AddAcquire(t) \/ RemoveAcquire(t)

\* caller t takes a step inside the with block
InsideLock(t) ==
    \/ AddUpdate(t) \/ AddReturn(t)
    \/ RemoveAbsent(t) \/ RemoveDelete(t) \/ RemoveReturn(t)
    \/ FlushOpen(t) \/ FlushDump(t) \/ FlushReplace(t) \/ FlushRaise(t)

\* a start with no backing file or with the file of one member
InitFair == Init /\ file \in {Absent, Dump(<<EntryB>>)}

\* the same program where a caller inside the with block goes on, and a
\* caller waiting for the lock gets it when it is free again and again
FairSpec ==
    /\ InitFair /\ [][Next]_vars
    /\ \A t \in Threads : WF_vars(InsideLock(t)) /\ SF_vars(Acquire(t))

(* ------------------------------------------------------------ properties *)

\* caller t is inside remove_chat
InRemove(t) ==
    \/ pc[t] \in {"rm_enter", "rm_check", "rm_exit"}
    \/ pc[t] \in {"flush_open", "flush_dump", "flush_replace"} /\ op[t] # "subscribe"

\* the ids list_chats shows for mapping d
ListedIds(d) == {list_chats(d)[i].id : i \in 1..Len(list_chats(d))}

\* the items of mapping d
Items(d) == {d[i] : i \in 1..Len(d)}

\* C1: a broadcast ends only after every member of its snapshot has had a
\* send attempt, whatever the outcomes, and then its counter equals the
\* size of the snapshot minus the number of failed members.
C1_NonAbortingFanOut ==
    [][\A t \in Threads :
          (op[t] = "broadcast" /\ op'[t] # "broadcast" /\ proc' = "running")
          => /\ idx[t] > Len(targets[t])
             /\ sent[t] = Len(targets[t]) - Len(failures[t])]_vars

\* C2: whenever no caller holds the lock and no flush has raised since the
\* last completed one, loading the backing file gives exactly the mapping
\* in memory.
C2_DurabilityRoundTrip ==
    (proc = "running" /\ lock = Unlocked /\ ~dirty) => Load(file) = data

\* an unsubscribe has returned True and the file holds what memory holds
C2_Witness ==
    /\ proc = "running"
    /\ lock = Unlocked
    /\ ~dirty
    /\ reply = "removed"
    /\ file = Dump(data)
    /\ Len(data) = 2

\* C3: when remove_chat, called for a target whose send was Forbidden,
\* returns or raises, get_chat of that target's id finds nothing and
\* list_chats does not show it.
C3_EvictionRemovesMember ==
    [][\A t \in Threads :
          (op[t] = "broadcast" /\ InRemove(t) /\ ~InRemove(t)' /\ proc' = "running")
          => /\ get_chat(data', targets[t][idx[t]].id) = {}
             /\ targets[t][idx[t]].id \notin ListedIds(data')]_vars

\* a broadcast has evicted a target and goes on with the next one
C3_Witness ==
    \E t \in Threads :
        /\ op[t] = "broadcast"
        /\ pc[t] = "send"
        /\ idx[t] = 2
        /\ failures[t] # <<>>
        /\ failures[t][1].kind = "removed"
        /\ get_chat(data, targets[t][1].id) = {}
        /\ file = Dump(data)

\* C4 as stated: every eviction lowers count() by exactly one. Storage
\* failures are left aside: the statement is taken for the runs in which no
\* flush has raised.
C4_EvictionLowersCount ==
    [][\A t \in Threads :
          (op[t] = "broadcast" /\ pc[t] = "rm_check" /\ pc'[t] # "rm_check"
             /\ proc' = "running" /\ ~dirty)
          => count(data') = count(data) - 1]_vars

\* C4 amended: an eviction lowers count() by exactly one when the target is
\* still registered at the moment remove_chat holds the lock, and leaves the
\* mapping as it is when the target is gone by then.
C4_EvictionLowersCountIfPresent ==
    [][\A t \in Threads :
          (op[t] = "broadcast" /\ pc[t] = "rm_check" /\ pc'[t] # "rm_check"
             /\ proc' = "running")
          => IF get_chat(data, targets[t][idx[t]].id) # {}
             THEN count(data') = count(data) - 1
             ELSE data' = data]_vars

\* remove_chat of a broadcast has deleted a target that was registered
C4_Witness ==
    \E t \in Threads :
        /\ op[t] = "broadcast"
        /\ pc[t] = "flush_open"
        /\ arg[t].key \notin Keys(data)
        /\ count(data) = Len(targets[t]) - 1

\* C5: add_chat for a registered id overwrites the item, keeps count() and
\* returns False; for an unknown id it adds the item, raises count() by one
\* and returns True.
C5_IdempotentRegistration ==
    [][\A t \in Threads :
          /\ (pc[t] = "add_update" /\ pc'[t] = "flush_open")
             => /\ DictGet(data', arg[t].key) = {arg[t]}
                /\ IF get_chat(data, StrToInt(arg[t].key)) # {}
                   THEN count(data') = count(data) /\ existing'[t] # {}
                   ELSE count(data') = count(data) + 1 /\ existing'[t] = {}
          /\ (pc[t] = "add_exit" /\ pc'[t] = "idle" /\ proc' = "running")
             => reply' = IF existing[t] = {} THEN "subscribed" ELSE "already_subscribed"]_vars

\* add_chat has overwritten the title and type of a registered id
C5_Witness ==
    \E t \in Threads :
        /\ pc[t] = "add_exit"
        /\ existing[t] # {}
        /\ existing[t] # {arg[t]}
        /\ arg[t] \in Items(data)
        /\ count(data) = 3

\* C6: the list a broadcast got from list_chats stays as it is while other
\* callers add and remove, and a list_chats after a completed deletion does
\* not show the deleted id.
C6_SnapshotIsolation ==
    [][\A t \in Threads :
          /\ (op[t] = "broadcast" /\ op'[t] = "broadcast") => targets'[t] = targets[t]
          /\ (pc[t] = "rm_check" /\ pc'[t] = "flush_open")
             => StrToInt(arg[t].key) \notin ListedIds(data')]_vars

\* a broadcast still holds a member that an unsubscribe has removed since
C6_Witness ==
    \E t \in Threads :
        /\ op[t] = "broadcast"
        /\ reply = "removed"
        /\ lock = Unlocked
        /\ \E i \in 1..Len(targets[t]) : targets[t][i].id \notin ListedIds(data)

\* C7: a broadcast always ends with its report, never with an error.
C7_BroadcastCompletes ==
    [][\A t \in Threads :
          (op[t] = "broadcast" /\ op'[t] # "broadcast" /\ proc' = "running")
          => reply' = "report"]_vars

\* C8: with a backing file that is missing or does not hold valid
\* structured data, the store starts without raising and count() is 0.
C8_CorruptFileRecovery ==
    [][(proc = "boot" /\ proc' # "boot"
          /\ file.kind \in {"absent", "undecodable", "badjson", "torn"})
       => (proc' = "running" /\ count(data') = 0)]_vars

SendStep(t) ==
    /\ pc[t] = "send"
    /\ idx[t] <= Len(targets[t])
    /\ pc'[t] = "rm_enter" \/ (pc'[t] = "send" /\ idx'[t] = idx[t] + 1)

\* C11: a broadcast calls remove_chat for a target exactly when the send to
\* it ended as Forbidden; after Delivered or any other TelegramError the
\* mapping and the backing file are what they were and the loop goes on.
C11_EvictionOnlyOnForbidden ==
    [][\A t \in Threads :
          /\ SendStep(t)
             => /\ pc'[t] = "rm_enter" <=> outcome'[t] = "Forbidden"
                /\ outcome'[t] # "Forbidden"
                   => (data' = data /\ file' = file /\ tmp' = tmp /\ lock' = lock)
          /\ (op'[t] = "broadcast" /\ InRemove(t)') => outcome'[t] = "Forbidden"]_vars

\* a send has ended with a TelegramError and its target is still registered
C11_Witness ==
    \E t \in Threads :
        /\ op[t] = "broadcast"
        /\ pc[t] = "send"
        /\ outcome[t] = "TelegramError"
        /\ failures[t] # <<>>
        /\ failures[t][Len(failures[t])].kind = "error"
        /\ failures[t][Len(failures[t])].id \in ListedIds(data)
        /\ file = Dump(data)

\* the flush run by caller t raises in this step
FlushRaiseStep(t) ==
    /\ pc[t] \in {"flush_open", "flush_dump", "flush_replace"}
    /\ pc'[t] \notin {"flush_open", "flush_dump", "flush_replace", "add_exit", "rm_exit"}
    /\ proc' = "running"

\* C12: when the flush of an eviction raises, the broadcast goes on with the
\* next target of its snapshot (and so reaches its report).
C12_EvictionFlushFailureGoesOn ==
    [][\A t \in Threads :
          (op[t] = "broadcast" /\ FlushRaiseStep(t))
          => /\ op'[t] = "broadcast"
             /\ pc'[t] = "send"
             /\ targets'[t] = targets[t]
             /\ idx'[t] = idx[t] + 1]_vars

\* the targets caller t has tried to send to so far
Attempted(t) ==
    {targets[t][i] : i \in 1..(IF pc[t] = "send" THEN idx[t] - 1 ELSE idx[t])}

\* C13: the members a broadcast sends to are exactly the members list_chats
\* showed when the broadcast started: the list is taken from the mapping of
\* that moment, it stays as it is whatever is added or removed later, the
\* loop walks it one target at a time, and the broadcast ends only when all
\* of it has been tried.
C13_FixedSnapshot ==
    [][\A t \in Threads :
          /\ (op[t] # "broadcast" /\ op'[t] = "broadcast")
             => (targets'[t] = list_chats(data) /\ idx'[t] = 1)
          /\ (op[t] = "broadcast" /\ op'[t] = "broadcast")
             => (targets'[t] = targets[t] /\ idx'[t] \in {idx[t], idx[t] + 1})
          /\ (op[t] = "broadcast" /\ op'[t] # "broadcast" /\ proc' = "running")
             => Attempted(t) = {targets[t][i] : i \in 1..Len(targets[t])}]_vars

\* the same for the broadcasts that do not end by raising
FixedSnapshotUnlessRaised ==
    [][\A t \in Threads :
          /\ (op[t] # "broadcast" /\ op'[t] = "broadcast")
             => (targets'[t] = list_chats(data) /\ idx'[t] = 1)
          /\ (op[t] = "broadcast" /\ op'[t] = "broadcast")
             => (targets'[t] = targets[t] /\ idx'[t] \in {idx[t], idx[t] + 1})
          /\ (op[t] = "broadcast" /\ op'[t] # "broadcast" /\ proc' = "running"
                /\ reply' # "raised")
             => Attempted(t) = {targets[t][i] : i \in 1..Len(targets[t])}]_vars

\* list l is in nondecreasing order of lowered title
SortedByLowerTitle(l) ==
    \A i, j \in 1..Len(l) : i < j => ~StrLess(Lower(l[j].title), Lower(l[i].title))

\* the position in caller t's targets of the member a note is about
NotePos(t, note) == CHOOSE i \in 1..Len(targets[t]) : targets[t][i].id = note.id

\* the notes of caller t are about targets already tried, in target order
NotesInOrder(t) ==
    /\ \A k \in 1..Len(failures[t]) :
          /\ \E i \in 1..Len(targets[t]) : targets[t][i].id = failures[t][k].id
          /\ NotePos(t, failures[t][k]) < idx[t]
          /\ failures[t][k].title = targets[t][NotePos(t, failures[t][k])].title
    /\ \A k, m \in 1..Len(failures[t]) :
          k < m => NotePos(t, failures[t][k]) < NotePos(t, failures[t][m])

\* C14: the list a broadcast works on is in nondecreasing order of lowered
\* title and does not change; each turn of the loop is about the target at
\* the next position of that list; the notes are about targets already
\* tried and follow the order of the list.
C14_DispatchOrder ==
    [][\A t \in Threads :
          /\ SortedByLowerTitle(list_chats(data'))
          /\ SortedByLowerTitle(targets'[t])
          /\ NotesInOrder(t)'
          /\ (op[t] = "broadcast" /\ op'[t] = "broadcast")
             => /\ targets'[t] = targets[t]
                /\ idx'[t] = idx[t] + (IF SendStep(t) /\ pc'[t] = "send" THEN 1
                                       ELSE IF InRemove(t) /\ ~InRemove(t)' THEN 1 ELSE 0)
          /\ (SendStep(t) /\ pc'[t] = "rm_enter")
             => arg'[t].key = IntToStr(targets[t][idx[t]].id)
          /\ (op[t] = "broadcast" /\ Len(failures'[t]) > Len(failures[t]))
             => /\ Len(failures'[t]) = Len(failures[t]) + 1
                /\ failures'[t][Len(failures'[t])].id = targets[t][idx[t]].id]_vars

\* a broadcast over three targets whose title order is neither the order of
\* registration nor the order of the raw titles, with two notes so far
C14_Witness ==
    \E t \in Threads :
        /\ op[t] = "broadcast"
        /\ Len(targets[t]) = 3
        /\ targets[t][2].title = <<97>>
        /\ targets[t][3].title = <<66>>
        /\ Len(failures[t]) = 2
        /\ failures[t][1].kind # failures[t][2].kind

\* where a caller is while it holds the lock: between the in-memory update
\* and the end of the flush
CriticalPcs ==
    {"add_update", "rm_check", "flush_open", "flush_dump", "flush_replace",
     "add_exit", "rm_exit"}

\* C15: no caller holds the lock while its copy_message is under way, or
\* at any other point outside the in-memory update and the flush.
C15_NoLockAcrossSend ==
    \A t \in Threads :
        /\ pc[t] = "send" => lock # t
        /\ lock = t => pc[t] \in CriticalPcs

\* a broadcast is sending again after an eviction while another caller holds
\* the lock
C15_Witness ==
    \E t, u \in Threads :
        /\ t # u
        /\ pc[t] = "send"
        /\ idx[t] <= Len(targets[t])
        /\ failures[t] # <<>>
        /\ failures[t][Len(failures[t])].kind = "removed"
        /\ lock = u

\* the mapping after call e, made alone on mapping d
CallEffect(d, e) ==
    IF e.op = "add" THEN DictSet(d, e.item)
    ELSE IF e.item.key \in Keys(d) THEN DictDel(d, e.item.key) ELSE d

\* what call e returns when made alone on mapping d
CallResult(d, e) ==
    IF e.op = "add"
    THEN (IF e.item.key \in Keys(d) THEN "false" ELSE "true")
    ELSE (IF e.item.key \in Keys(d) THEN "true" ELSE "false")

RECURSIVE RunAlone(_, _)
\* the mapping after the calls of h, made one after the other on mapping d
RunAlone(d, h) == IF h = <<>> THEN d ELSE RunAlone(CallEffect(d, Head(h)), Tail(h))

RECURSIVE ResultsAlone(_, _)
\* every call of h that returned has returned what it returns in that run
ResultsAlone(d, h) ==
    \/ h = <<>>
    \/ /\ Head(h).result \in {"raised", CallResult(d, Head(h))}
       /\ ResultsAlone(CallEffect(d, Head(h)), Tail(h))

\* C16: at most one caller is between an update and the end of its flush,
\* and it owns the lock; the calls that have ended have returned what they
\* return when made one after the other, in the order they ended, on the
\* mapping loaded at start-up, and with the lock free the mapping is the
\* result of that run. So of two concurrent add_chat of one unknown id,
\* one returns True and the other False.
C16_Serialized ==
    /\ Cardinality({t \in Threads : pc[t] \in CriticalPcs}) <= 1
    /\ \A t \in Threads : pc[t] \in CriticalPcs => lock = t
    /\ proc = "running" => ResultsAlone(hist.base, hist.log)
    /\ (proc = "running" /\ lock = Unlocked) => data = RunAlone(hist.base, hist.log)

\* add_chat of an unknown id has returned True, and a second add_chat of the
\* same id, called before the first one had the lock, is about to return False
C16_Witness ==
    \E t \in Threads :
        /\ pc[t] = "add_exit"
        /\ existing[t] # {}
        /\ ops = 2
        /\ Len(hist.log) = 1
        /\ hist.log[1] = [op |-> "add", item |-> arg[t], result |-> "true"]
        /\ hist.base = <<>>

\* caller t takes the step of remove_chat that follows the membership test
RemoveCheckStep(t) == pc[t] = "rm_check" /\ pc'[t] # "rm_check" /\ proc' = "running"

\* caller t leaves remove_chat by its last return statement
RemoveExitStep(t) == pc[t] = "rm_exit" /\ pc'[t] # "rm_exit" /\ proc' = "running"

\* C17: remove_chat of an unknown id returns False (unsubscribe_handler
\* answers "not subscribed") without starting a flush and leaves the mapping,
\* the file and the temporary file as they are; remove_chat of a known id
\* deletes that key and no other item, starts a flush, and returns True
\* (unsubscribe_handler answers "removed") only when the file holds the
\* mapping without that key; get_chat of an unknown id is None, of a known
\* id the stored item.
C17_RemoveFrame ==
    [][ /\ \A t \in Threads :
            /\ (RemoveCheckStep(t) /\ arg[t].key \notin Keys(data)) =>
                  /\ data' = data /\ file' = file /\ tmp' = tmp /\ dirty' = dirty
                  /\ pc'[t] \in {"idle", "send"}
                  /\ lock' = Unlocked
                  /\ op[t] = "unsubscribe" => reply' = "not_subscribed"
            /\ (RemoveCheckStep(t) /\ arg[t].key \in Keys(data)) =>
                  /\ data' = SelectSeq(data, LAMBDA e : e.key # arg[t].key)
                  /\ Len(data') = Len(data) - 1
                  /\ pc'[t] = "flush_open"
                  /\ file' = file
            /\ RemoveExitStep(t) =>
                  /\ arg[t].key \notin Keys(data)
                  /\ file = Dump(data) /\ Load(file) = data /\ ~dirty
                  /\ data' = data /\ file' = file
                  /\ lock' = Unlocked
                  /\ op[t] = "unsubscribe" => reply' = "removed"
        /\ \A id \in ChatIds \cup {0} :
            /\ IntToStr(id) \notin Keys(data) => get_chat(data, id) = {}
            /\ IntToStr(id) \in Keys(data) =>
                  \E e \in Items(data) :
                      /\ e.key = IntToStr(id)
                      /\ get_chat(data, id) = {[id |-> id, title |-> e.title, type |-> e.type]}
      ]_vars

\* a known id has been removed and flushed, and a second remove_chat of the
\* same id has returned False: two members are left, in memory and in the file
C17_Witness ==
    /\ reply = "not_subscribed"
    /\ ops = 2
    /\ Len(data) = 2
    /\ file = Dump(data)
    /\ get_chat(data, 1) = {}
    /\ \A t \in Threads : pc[t] = "idle"

\* the flush run by caller t ends well in this step
FlushDoneStep(t) == pc[t] = "flush_replace" /\ pc'[t] \in {"add_exit", "rm_exit"}

\* caller t changes the mapping in this step
UpdateStep(t) == pc[t] \in {"add_update", "rm_check"} /\ pc'[t] = "flush_open"

\* the members in memory are not the members in the file
Disagree == Items(data) # Items(Load(file))

\* the update before the flush of caller t changed the mapping
ChangedMapping(t) == op[t] = "subscribe" => existing[t] # {arg[t]}

\* C18 as stated: after a flush has raised under an update that changed the
\* mapping, the members in memory are not the members in the file.
C18_DisagreeAfterFlushFailure ==
    [][\A t \in Threads :
          (FlushRaiseStep(t) /\ ChangedMapping(t)) => Disagree']_vars

\* C18 amended: when a flush raises, the handler ends with the error and not
\* with a reply of success, the lock is free, and the mapping keeps the update
\* while the file is what it was; memory and file then disagree if they agreed
\* before the update and the update changed the mapping, and agreement comes
\* back only by a flush that ends well or by a further update, never by
\* undoing the failed one; add_chat and remove_chat reach their return
\* statement only after a flush that ended well; such a flush leaves in the
\* file the whole mapping, the updates of earlier failed calls included.
C18_FlushFailureNoRollback ==
    [][ /\ \A t \in Threads :
            /\ FlushRaiseStep(t) =>
                  /\ reply' = "raised" /\ op'[t] = "none"
                  /\ data' = data /\ file' = file
                  /\ lock' = Unlocked
                  /\ dirty'
                  /\ op[t] = "subscribe" => DictGet(data', arg[t].key) = {arg[t]}
                  /\ op[t] # "subscribe" => arg[t].key \notin Keys(data')
                  /\ (~dirty /\ ChangedMapping(t)) => Disagree'
            /\ FlushDoneStep(t) =>
                  /\ file' = Dump(data) /\ Load(file') = data' /\ data' = data
                  /\ ~dirty'
            /\ pc[t] \in {"add_exit", "rm_exit"} => (~dirty /\ Load(file) = data)
        /\ (proc = "running" /\ proc' = "running" /\ Disagree /\ ~Disagree')
            => \E t \in Threads : FlushDoneStep(t) \/ UpdateStep(t)
      ]_vars

\* an add_chat of a new id is at its return after a flush that ended well,
\* the only other call so far was an add_chat whose flush raised, and the
\* file holds both members
C18_Witness ==
    \E t \in Threads :
        /\ pc[t] = "add_exit"
        /\ existing[t] = {}
        /\ reply = "raised"
        /\ ops = 2
        /\ ~dirty
        /\ Len(data) = 2
        /\ Load(file) = data

\* the notes broadcast_handler of caller t holds about the target with that id
NotesAbout(t, id) == {i \in 1..Len(failures[t]) : failures[t][i].id = id}

\* the members of the snapshot of caller t that have their outcome
Classified(t) == idx[t] - 1

\* the targets of caller t that were delivered to: classified, with no note
DeliveredTo(t) ==
    {i \in 1..Classified(t) : NotesAbout(t, targets[t][i].id) = {}}

\* a broadcast finds no target in this step and ends
EmptyBroadcastStep == ops' = ops + 1 /\ reply' = "no_subscribers" /\ pc' = pc

\* C19: in a broadcast every target of the snapshot has no outcome (it is
\* still to be tried) or exactly one of: counted in sent, one note "removed",
\* one note "error"; an outcome once given stays (sent never goes down, a
\* note is never taken back or changed); each turn of the loop gives exactly
\* one outcome to exactly the target it tried; so when the summary is sent,
\* sent plus the number of notes is the size of the snapshot. A broadcast
\* that finds no target sends nothing, calls no remove_chat, changes neither
\* mapping nor file, and ends with sent = 0 and no note.
C19_OneOutcomePerMember ==
    [][ /\ \A t \in Threads :
            /\ op[t] = "broadcast" =>
                  /\ sent[t] + Len(failures[t]) = Classified(t)
                  /\ sent[t] = Cardinality(DeliveredTo(t))
                  /\ \A i \in 1..Len(targets[t]) :
                        Cardinality(NotesAbout(t, targets[t][i].id))
                            = IF i <= Classified(t) /\ i \notin DeliveredTo(t) THEN 1 ELSE 0
                  /\ \A n \in 1..Len(failures[t]) : failures[t][n].kind \in {"removed", "error"}
            /\ (op[t] = "broadcast" /\ op'[t] = "broadcast") =>
                  /\ sent'[t] \in {sent[t], sent[t] + 1}
                  /\ Len(failures'[t]) \in {Len(failures[t]), Len(failures[t]) + 1}
                  /\ SubSeq(failures'[t], 1, Len(failures[t])) = failures[t]
                  /\ (sent'[t] + Len(failures'[t])) - (sent[t] + Len(failures[t]))
                        = idx'[t] - idx[t]
            /\ SendStep(t) =>
                  /\ outcome'[t] = "Delivered" =>
                        (sent'[t] = sent[t] + 1 /\ failures'[t] = failures[t])
                  /\ outcome'[t] \notin {"Delivered", "Forbidden"} =>
                        /\ sent'[t] = sent[t]
                        /\ failures'[t] = Append(failures[t],
                              [kind |-> "error", id |-> targets[t][idx[t]].id,
                               title |-> targets[t][idx[t]].title])
                  /\ outcome'[t] = "Forbidden" =>
                        (sent'[t] = sent[t] /\ failures'[t] = failures[t])
            /\ (op[t] = "broadcast" /\ InRemove(t) /\ pc'[t] = "send") =>
                  /\ sent'[t] = sent[t]
                  /\ failures'[t] = Append(failures[t],
                        [kind |-> "removed", id |-> targets[t][idx[t]].id,
                         title |-> targets[t][idx[t]].title])
            /\ (op[t] = "broadcast" /\ op'[t] = "none" /\ reply' = "report"
                    /\ proc' = "running") =>
                  sent[t] + Len(failures[t]) = Len(targets[t])
            /\ (op[t] # "broadcast" /\ op'[t] = "broadcast") =>
                  (targets'[t] # <<>> /\ sent'[t] = 0 /\ failures'[t] = <<>>)
        /\ EmptyBroadcastStep =>
              /\ list_chats(data) = <<>>
              /\ data' = data /\ file' = file /\ tmp' = tmp /\ lock' = lock
              /\ \A t \in Threads :
                    /\ op'[t] = op[t]
                    /\ pc[t] = "idle" => (sent'[t] = 0 /\ failures'[t] = <<>>)
      ]_vars

\* a broadcast over three members is about to send its summary: one was
\* delivered to, one was evicted, one failed for another reason
C19_Witness ==
    \E t \in Threads :
        /\ op[t] = "broadcast"
        /\ pc[t] = "send"
        /\ Len(targets[t]) = 3
        /\ idx[t] = 4
        /\ sent[t] = 1
        /\ {failures[t][n].kind : n \in 1..Len(failures[t])} = {"removed", "error"}

\* caller t waits for the lock
Waiting(t) == pc[t] \in {"add_enter", "rm_enter"}

\* caller t leaves the with block in this step
LeaveLockStep(t) == pc[t] \in CriticalPcs /\ pc'[t] \notin CriticalPcs

\* C20: the lock is held only by a caller that is inside the with block of
\* add_chat or remove_chat; every step by which a caller leaves the block
\* (the return of add_chat, both returns of remove_chat, an error raised by
\* the flush) frees the lock; and a caller that waits for the lock, at any
\* time and so also after a call whose flush raised, gets it and leaves
\* add_chat or remove_chat again, unless the process dies before.
C20_LockAlwaysReleased ==
    /\ [](\A t \in Threads : lock = t => pc[t] \in CriticalPcs)
    /\ [](lock \in Threads \cup {Unlocked})
    /\ [][\A t \in Threads : LeaveLockStep(t) => (lock = t /\ lock' = Unlocked)]_vars
    /\ \A t \in Threads : Waiting(t) ~> (lock = t \/ proc = "boot")
    /\ \A t \in Threads : (Waiting(t) \/ lock = t) ~> (pc[t] \in {"idle", "send"})
    /\ \A t \in Threads : (Waiting(t) /\ dirty) ~> (pc[t] \in {"idle", "send"})

\* after a call whose flush raised, another caller has got the lock and is
\* at the return statement of add_chat, its flush done
C20_Witness ==
    \E t \in Threads :
        /\ reply = "raised"
        /\ lock = t
        /\ pc[t] = "add_exit"
        /\ ops = 2
        /\ ~dirty

====
